---- MODULE Spec2Model ----
(***************************************************************************)
(* Log tailing of the supervisord RPC client (process.go).                 *)
(*                                                                         *)
(* One tail session: Process.TailStdoutLog -> Process.logChan starts the   *)
(* splitter goroutine, which starts the pump goroutine of Process.tailLog. *)
(* The pump polls the supervisor on a one-second ticker, reconciles each   *)
(* reply against its offset and writes the delta to an io.Pipe; the        *)
(* splitter reads the pipe through a bufio.Reader and hands lines to the   *)
(* caller over an unbuffered channel.                                      *)
(*                                                                         *)
(* Strings are sequences of one-character strings. The supervisor and the  *)
(* caller are the environment: a reply is any chunk (a string of bounded   *)
(* length, or no string) with any end offset, the chunk no longer than the *)
(* length the call asked for; the caller may cancel and may stop receiving *)
(* (for good) at any time.                                                 *)
(*                                                                         *)
(* The pump stands at "select" (the select of its loop), "call" (inside    *)
(* p.rpc.Call), "write" (inside w.Write), "done" (returned) or "panic";    *)
(* the splitter at "read" (inside br.ReadString), "sendLine" / "sendErr"   *)
(* (blocked on ch <-) or "done" (returned, ch closed).                     *)
(*                                                                         *)
(* Left out: a failing w.Write (the read end of the pipe is never closed,  *)
(* so Write only returns nil), replies that lack ret[0] or whose ret[1] is *)
(* no int64, and a negative tailLine or readBufSize.                       *)
(***************************************************************************)
EXTENDS Integers, Sequences, FiniteSets, TLC

\* ------------------------------------------------------------------ bounds

\* longest chunk a reply carries
MaxChunk == 2
\* largest end offset a reply reports
MaxOff == 3
\* largest tailLine a session is started with
MaxTail == 1
\* most bytes written to the pipe in one session
MaxWritten == 3

\* --------------------------------------------------------------- constants

defaultReadLogBufSize == 8192

\* ------------------------------------------------------------- vocabulary

NL == "\n"
Bytes == {"a", NL}

\* strings of at most n bytes
StrUpTo(n) == UNION {[1..k -> Bytes] : k \in 0..n}

NoErr == "nil"
\* context.Canceled
Canceled == "context canceled"
TailLogQuit == "tail log quit"
\* the error rpc.Call returns on a transport failure
RpcError == "rpc call failed"
\* the fault the supervisor answers for a process name it does not know
BadName == "BAD_NAME"

\* what err.Error() sends on the channel: a string that is no log line
ErrText(e) == <<e>>

IsLogText(s) == \A i \in 1..Len(s) : s[i] \in Bytes

\* a reply of supervisor.tailProcessStdoutLog: ret[0] (chunk, a string or
\* not) and ret[1] (the end offset)
Replies == [isStr : {TRUE}, chunk : StrUpTo(MaxChunk), end : 0..MaxOff]
             \cup [isStr : {FALSE}, chunk : {<<>>}, end : 0..MaxOff]

\* ---------------------------------------------------------- pure functions

\* strings.Count(s, "\n")
Count(s) == Cardinality({i \in 1..Len(s) : s[i] = NL})

\* strings.Index(s, "\n"): 0-based, -1 when absent
Index(s) ==
  IF \E i \in 1..Len(s) : s[i] = NL
  THEN (CHOOSE i \in 1..Len(s) : s[i] = NL /\ \A j \in 1..(i-1) : s[j] /= NL) - 1
  ELSE -1

\* the loop of strings.genSplit with sepSave = 1: cut after each of the
\* first k separators, the rest is the last element
RECURSIVE GenSplitLoop(_, _)
GenSplitLoop(s, k) ==
  IF k = 0 \/ Index(s) < 0
  THEN <<s>>
  ELSE <<SubSeq(s, 1, Index(s) + 1)>>
         \o GenSplitLoop(SubSeq(s, Index(s) + 2, Len(s)), k - 1)

Min(a, b) == IF a < b THEN a ELSE b

\* strings.SplitAfterN(s, "\n", n)
SplitAfterN(s, n) ==
  IF n = 0 THEN <<>>
  ELSE LET m == IF n < 0 THEN Count(s) + 1 ELSE Min(n, Len(s) + 1)
       IN GenSplitLoop(s, m - 1)

\* data[from:], from 0-based
SliceFrom(s, from) == SubSeq(s, from + 1, Len(s))

\* ------------------------------------------------------------------- state

VARIABLES
  nameKnown,   \* whether the supervisor knows the process name of the session
  tailLine,    \* tailLine argument of the session
  startErr,    \* what TailStdoutLog reported to its caller besides the channel
  bufArg,      \* readBufSize argument of the session
  readBufSize, \* readBufSize of tailLog, after its first statement
  inFlight,    \* the argument lists of the calls of p.rpc.Call not yet returned
  pumpPc,      \* where the goroutine of tailLog stands
  offset,      \* its offset
  err,         \* its err
  pipeData,    \* bytes of the Write in progress the reader has not taken yet
  pipeErr,     \* the error the pipe was closed with, NoErr while it is open
  closes,      \* history: how many times w.CloseWithError was called
  splitPc,     \* where the goroutine of logChan stands
  brBuf,       \* bytes the bufio.Reader has read and ReadString has not returned
  sendVal,     \* the string the goroutine of logChan is sending on ch
  chClosed,    \* whether ch is closed
  cancelled,   \* whether ctx is cancelled
  consuming,   \* whether the caller still receives from ch
  emitted,     \* the strings the caller has received from ch, in order
  crashed,     \* whether the program has died of a panic
  written,     \* history: all bytes passed to w.Write, in order
  seedLen,     \* history: how many of them were written by polls at offset 0
  seedCut,     \* history: whether a poll at offset 0 got more than tailLine newlines
  rpcIssued,   \* history: whether p.rpc.Call was ever invoked
  polls,       \* history: "none" before the first reply, "skipped" while every
               \* reply had no string, "reconciled" once one went through the
               \* if/else on offset
  suffixRun,   \* history: "none" before the first snapshot, "ok" while every
               \* snapshot has been a suffix of the log ending at its end
               \* offset (first end > 0, then 0 <= advance <= len), else "off"
  lastEnd,     \* history: end offset of the latest snapshot of an "ok" run
  firstEnd,    \* history: end offset of its first snapshot
  knownLog     \* history: the bytes the log of an "ok" run is known to end
               \* with at lastEnd

pumpVars == <<pumpPc, offset, err, inFlight>>
pipeVars == <<pipeData, pipeErr, closes>>
splitVars == <<splitPc, brBuf, sendVal, chClosed>>
sessVars == <<nameKnown, tailLine, startErr, bufArg, readBufSize>>
histVars == <<written, seedLen, seedCut, suffixRun, lastEnd, firstEnd,
              knownLog, polls>>

vars == <<nameKnown, tailLine, startErr, bufArg, readBufSize, inFlight,
          pumpPc, offset, err,
          pipeData, pipeErr, closes, splitPc, brBuf, sendVal, chClosed, cancelled,
          consuming, emitted, crashed, written, seedLen, seedCut,
          rpcIssued, suffixRun, lastEnd, firstEnd, knownLog, polls>>

Init ==
  /\ nameKnown = TRUE
  /\ tailLine = 0
  /\ startErr = NoErr
  /\ bufArg = 0
  /\ readBufSize = 0
  /\ inFlight = <<>>
  /\ pumpPc = "idle"
  /\ offset = 0
  /\ err = NoErr
  /\ pipeData = <<>>
  /\ pipeErr = NoErr
  /\ closes = 0
  /\ splitPc = "idle"
  /\ brBuf = <<>>
  /\ sendVal = <<>>
  /\ chClosed = FALSE
  /\ cancelled = FALSE
  /\ consuming = TRUE
  /\ emitted = <<>>
  /\ crashed = FALSE
  /\ written = <<>>
  /\ seedLen = 0
  /\ seedCut = FALSE
  /\ rpcIssued = FALSE
  /\ suffixRun = "none"
  /\ lastEnd = 0
  /\ firstEnd = 0
  /\ knownLog = <<>>
  /\ polls = "none"

\* ------------------------------------------------------------ the session

\* ReadBufSize had tailLog passed the argument on as it is
ReadBufSize_NoDefault(n) == n

\* the first statement of tailLog: readBufSize == 0 stands for the default
ReadBufSize(n) == IF n = 0 THEN defaultReadLogBufSize ELSE n

\* the values a caller passes as readBufSize
BufSizes == {0, 1}

\* TailStdoutLog had it asked the supervisor for the process first and
\* returned its fault
TailStdoutLog_FailFast(name, size, k) ==
  /\ pumpPc = "idle"
  /\ nameKnown' = name
  /\ bufArg' = size
  /\ readBufSize' = ReadBufSize(size)
  /\ tailLine' = k
  /\ startErr' = IF name THEN NoErr ELSE BadName
  /\ pumpPc' = IF name THEN "select" ELSE "done"
  /\ splitPc' = IF name THEN "read" ELSE "done"
  /\ UNCHANGED <<offset, err, inFlight, pipeVars, brBuf, sendVal, chClosed,
                 cancelled, consuming, emitted, crashed, histVars, rpcIssued>>

\* TailStdoutLog / logChan: make ch, start the goroutine of logChan, which
\* calls tailLog, which makes the pipe and starts the pump; ch is returned
TailStdoutLog(name, size, k) ==
  /\ pumpPc = "idle"
  /\ nameKnown' = name
  /\ bufArg' = size
  /\ readBufSize' = ReadBufSize(size)
  /\ tailLine' = k
  /\ startErr' = NoErr
  /\ pumpPc' = "select"
  /\ splitPc' = "read"
  /\ UNCHANGED <<offset, err, inFlight, pipeVars, brBuf, sendVal, chClosed,
                 cancelled, consuming, emitted, crashed, histVars, rpcIssued>>

\* the caller cancels ctx
Cancel ==
  /\ pumpPc \in {"select", "call", "write"}
  /\ ~crashed
  /\ ~cancelled
  /\ cancelled' = TRUE
  /\ UNCHANGED <<sessVars, pumpVars, pipeVars, splitVars, consuming,
                 emitted, crashed, histVars, rpcIssued>>

\* the caller stops receiving from ch
ConsumerStop ==
  /\ splitPc \in {"read", "sendLine", "sendErr"}
  /\ ~crashed
  /\ consuming
  /\ consuming' = FALSE
  /\ UNCHANGED <<sessVars, pumpVars, pipeVars, splitVars, cancelled,
                 emitted, crashed, histVars, rpcIssued>>

\* --------------------------------------------------------------- the pump

\* DeferErr had it looked at ctx.Err() before err
DeferErr_CtxFirst(e, ctxDone) ==
  IF ctxDone THEN Canceled
  ELSE IF e /= NoErr THEN e ELSE TailLogQuit

\* the deferred function of the pump: the error the pipe is closed with
DeferErr(e, ctxDone) ==
  IF e /= NoErr THEN e
  ELSE IF ctxDone THEN Canceled ELSE TailLogQuit

\* FirstRead had it split into lineCount-k pieces and kept the last of them
FirstRead_OneMore(data, k) ==
  LET lineCount == Count(data)
  IN IF lineCount > k
     THEN SplitAfterN(data, lineCount - k)[lineCount - k]
     ELSE data

\* "first read": the branch taken at offset == 0
FirstRead(data, k) ==
  LET lineCount == Count(data)
  IN IF lineCount > k
     THEN SplitAfterN(data, lineCount - k + 1)[lineCount - k + 1]
     ELSE data

\* whether data[dataOffset:] of the else branch panics (slice bounds out of range)
SlicePanics(off, data, newOffset) ==
  newOffset - off > 0 /\ Len(data) - (newOffset - off) < 0

\* the else branch: the data kept of a reply at offset /= 0
NextData(off, data, newOffset) ==
  IF newOffset - off > 0
  THEN SliceFrom(data, Len(data) - (newOffset - off))
  ELSE data

\* the else branch: the offset after a reply at offset /= 0
NextOffset(off, newOffset) ==
  IF newOffset - off > 0 THEN newOffset ELSE off

\* data after the if/else on offset, for a reply that does not panic
Reconciled(off, r, k) ==
  IF off = 0 THEN FirstRead(r.chunk, k) ELSE NextData(off, r.chunk, r.end)

\* the argument list of p.rpc.Call: []any{name, offset, readBufSize}; the
\* name is told by whether the supervisor knows it
CallArgs == [name |-> nameKnown, offset |-> offset, length |-> readBufSize]

\* select takes <-t.C (the ticker fires every second while it is not
\* stopped): ret is declared and p.rpc.Call is invoked
PumpTick ==
  /\ pumpPc = "select"
  /\ ~crashed
  /\ pumpPc' = "call"
  /\ inFlight' = Append(inFlight, CallArgs)
  /\ rpcIssued' = TRUE
  /\ UNCHANGED <<sessVars, offset, err, pipeVars, splitVars, cancelled,
                 consuming, emitted, crashed, histVars>>

\* select takes <-ctx.Done(): return, the deferred function closes the pipe
PumpCtxDone ==
  /\ pumpPc = "select"
  /\ ~crashed
  /\ cancelled
  /\ pumpPc' = "done"
  /\ pipeErr' = DeferErr(err, cancelled)
  /\ closes' = closes + 1
  /\ UNCHANGED <<sessVars, offset, err, inFlight, pipeData, splitVars,
                 cancelled, consuming, emitted, crashed, histVars, rpcIssued>>

\* the errors p.rpc.Call can return for the session's name: a call for a
\* name the supervisor does not know never succeeds
CallErrors == IF nameKnown THEN {RpcError} ELSE {RpcError, BadName}

\* p.rpc.Call returns an error: return, the deferred function closes the pipe
RpcFails(e) ==
  /\ pumpPc = "call"
  /\ ~crashed
  /\ e \in CallErrors
  /\ err' = e
  /\ inFlight' = Tail(inFlight)
  /\ pumpPc' = "done"
  /\ pipeErr' = DeferErr(e, cancelled)
  /\ closes' = closes + 1
  /\ UNCHANGED <<sessVars, offset, pipeData, splitVars, cancelled,
                 consuming, emitted, crashed, histVars, rpcIssued>>

\* the last n bytes of s
LastBytes(s, n) == SubSeq(s, Len(s) - n + 1, Len(s))

\* whether the chunk of r can be the end of a log that ends at r.end, given
\* that the log ended with knownLog at lastEnd: it brings r.end - lastEnd
\* new bytes, and its bytes before those are the bytes known to precede them
ExtendsLog(r) ==
  LET adv == r.end - lastEnd
      old == Len(r.chunk) - adv
      m == Min(old, Len(knownLog))
  IN /\ adv >= 0
     /\ old >= 0
     /\ Len(r.chunk) <= r.end
     /\ LastBytes(SubSeq(r.chunk, 1, old), m) = LastBytes(knownLog, m)

\* history of the snapshots: whether they are still suffixes of one log, and
\* what is known of that log
SuffixHist(r) ==
  IF r.isStr /\ suffixRun = "none" /\ r.end > 0 /\ Len(r.chunk) <= r.end
  THEN [run |-> "ok", end |-> r.end, first |-> r.end, log |-> r.chunk]
  ELSE IF r.isStr /\ suffixRun = "ok" /\ ExtendsLog(r)
  THEN [run |-> "ok", end |-> r.end, first |-> firstEnd,
        log |-> IF Len(r.chunk) - (r.end - lastEnd) >= Len(knownLog)
                THEN r.chunk
                ELSE knownLog \o LastBytes(r.chunk, r.end - lastEnd)]
  ELSE [run |-> "off", end |-> 0, first |-> 0, log |-> <<>>]

\* p.rpc.Call returns nil with ret = r, for a name the supervisor knows; the
\* supervisor sends at most the length it was asked for
CallReturns(r) ==
  /\ pumpPc = "call"
  /\ ~crashed
  /\ nameKnown
  /\ r \in Replies
  /\ Len(r.chunk) <= readBufSize
  /\ inFlight' = Tail(inFlight)

\* the history of the snapshots after the reply r
Snapshot(r) ==
  LET h == SuffixHist(r)
  IN /\ suffixRun' = h.run
     /\ lastEnd' = h.end
     /\ firstEnd' = h.first
     /\ knownLog' = h.log

\* PumpSkip had the pump returned on a ret[0] that is no string
PumpSkip_Quit(r) ==
  /\ CallReturns(r)
  /\ ~r.isStr
  /\ pumpPc' = "done"
  /\ pipeErr' = DeferErr(err, cancelled)
  /\ closes' = closes + 1
  /\ polls' = IF polls = "none" THEN "skipped" ELSE polls
  /\ Snapshot(r)
  /\ UNCHANGED <<sessVars, offset, err, pipeData, splitVars, cancelled,
                 consuming, emitted, crashed, written, seedLen, seedCut,
                 rpcIssued>>

\* ret[0] is no string: continue
PumpSkip(r) ==
  /\ CallReturns(r)
  /\ ~r.isStr
  /\ pumpPc' = "select"
  /\ polls' = IF polls = "none" THEN "skipped" ELSE polls
  /\ Snapshot(r)
  /\ UNCHANGED <<sessVars, offset, err, pipeVars, splitVars, cancelled,
                 consuming, emitted, crashed, written, seedLen, seedCut,
                 rpcIssued>>

\* ret[0] is a string and data[dataOffset:] panics: the deferred function
\* closes the pipe and the panic goes on to end the program
PumpPanic(r) ==
  /\ CallReturns(r)
  /\ r.isStr
  /\ offset /= 0
  /\ SlicePanics(offset, r.chunk, r.end)
  /\ pumpPc' = "panic"
  /\ pipeErr' = DeferErr(err, cancelled)
  /\ closes' = closes + 1
  /\ Snapshot(r)
  /\ UNCHANGED <<sessVars, offset, err, pipeData, splitVars, cancelled,
                 consuming, emitted, crashed, written, seedLen, seedCut,
                 rpcIssued, polls>>

\* the offset after the if/else on offset
ReconciledOffset(off, r) ==
  IF off = 0 THEN r.end ELSE NextOffset(off, r.end)

\* ret[0] is a string: the if/else on offset, then w.Write(data) when data
\* is not empty, else the next iteration. The supervisor sends at most
\* MaxWritten bytes worth of deltas in a session.
PumpReconcile(r) ==
  /\ CallReturns(r)
  /\ r.isStr
  /\ ~(offset /= 0 /\ SlicePanics(offset, r.chunk, r.end))
  /\ LET data == Reconciled(offset, r, tailLine)
     IN /\ Len(written) + Len(data) <= MaxWritten
        /\ offset' = ReconciledOffset(offset, r)
        /\ pipeData' = data
        /\ pumpPc' = IF Len(data) > 0 THEN "write" ELSE "select"
        /\ written' = written \o data
        /\ seedLen' = IF offset = 0 THEN seedLen + Len(data) ELSE seedLen
        /\ seedCut' = (seedCut \/ (offset = 0 /\ Count(r.chunk) > tailLine))
  /\ polls' = "reconciled"
  /\ Snapshot(r)
  /\ UNCHANGED <<sessVars, err, pipeErr, closes, splitVars, cancelled,
                 consuming, emitted, crashed, rpcIssued>>

\* PumpWriteReturns had the pipe taken the bytes without waiting for the reader
PumpWriteReturns_Early ==
  /\ pumpPc = "write"
  /\ ~crashed
  /\ pumpPc' = "select"
  /\ UNCHANGED <<sessVars, offset, err, inFlight, pipeVars, splitVars,
                 cancelled, consuming, emitted, crashed, histVars, rpcIssued>>

\* w.Write returns once the reader has taken all of data
PumpWriteReturns ==
  /\ pumpPc = "write"
  /\ ~crashed
  /\ pipeData = <<>>
  /\ pumpPc' = "select"
  /\ UNCHANGED <<sessVars, offset, err, inFlight, pipeVars, splitVars,
                 cancelled, consuming, emitted, crashed, histVars, rpcIssued>>

\* the panic of the pump ends the program
ProcessExit ==
  /\ pumpPc = "panic"
  /\ ~crashed
  /\ crashed' = TRUE
  /\ UNCHANGED <<sessVars, pumpVars, pipeVars, splitVars, cancelled,
                 consuming, emitted, histVars, rpcIssued>>

\* ----------------------------------------------------------- the splitter

\* ReadLine had it returned the bytes up to the last buffered delimiter
ReadLine_ToLast(buf) ==
  SubSeq(buf, 1, CHOOSE i \in 1..Len(buf) :
                   buf[i] = NL /\ \A j \in (i+1)..Len(buf) : buf[j] /= NL)

\* br.ReadString('\n') finds a delimiter in the buffered bytes: it returns
\* the bytes up to and including it, and the loop goes on to ch <- line
ReadLine(buf) == SubSeq(buf, 1, Index(buf) + 1)

SplitScan ==
  /\ splitPc = "read"
  /\ ~crashed
  /\ Index(brBuf) >= 0
  /\ sendVal' = ReadLine(brBuf)
  /\ brBuf' = SliceFrom(brBuf, Len(ReadLine(brBuf)))
  /\ splitPc' = "sendLine"
  /\ UNCHANGED <<sessVars, pumpVars, pipeVars, chClosed, cancelled,
                 consuming, emitted, crashed, histVars, rpcIssued>>

\* no delimiter is buffered: the reader fills from the pipe, taking n bytes
\* of the Write in progress (as many as its free space allows)
SplitFill(n) ==
  /\ splitPc = "read"
  /\ ~crashed
  /\ Index(brBuf) < 0
  /\ n \in 1..Len(pipeData)
  /\ brBuf' = brBuf \o SubSeq(pipeData, 1, n)
  /\ pipeData' = SliceFrom(pipeData, n)
  /\ UNCHANGED <<sessVars, pumpVars, pipeErr, closes, splitPc, sendVal,
                 chClosed, cancelled, consuming, emitted, crashed, histVars,
                 rpcIssued>>

\* AfterReadErr had the loop returned without a send on a cancelled context
AfterReadErr_CancelQuiet(e) ==
  IF e = "EOF" THEN "read"
  ELSE IF e = Canceled THEN "done" ELSE "sendErr"

\* what the loop does with the error of ReadString on a closed pipe: on
\* io.EOF sleep and continue, else go on to ch <- err.Error()
AfterReadErr(e) == IF e = "EOF" THEN "read" ELSE "sendErr"

\* SplitReadErr had ReadString returned when the pipe holds no bytes, closed
\* or not
SplitReadErr_Eager ==
  /\ splitPc = "read"
  /\ ~crashed
  /\ Index(brBuf) < 0
  /\ pipeData = <<>>
  /\ brBuf' = <<>>
  /\ splitPc' = AfterReadErr(pipeErr)
  /\ sendVal' = IF AfterReadErr(pipeErr) = "sendErr" THEN ErrText(pipeErr) ELSE <<>>
  /\ chClosed' = (AfterReadErr(pipeErr) = "done")
  /\ UNCHANGED <<sessVars, pumpVars, pipeVars, cancelled, consuming, emitted,
                 crashed, histVars, rpcIssued>>

\* no delimiter is buffered and the pipe is closed: ReadString returns the
\* buffered bytes with the error of the pipe; the loop does not use the bytes
SplitReadErr ==
  /\ splitPc = "read"
  /\ ~crashed
  /\ Index(brBuf) < 0
  /\ pipeData = <<>>
  /\ pipeErr /= NoErr
  /\ brBuf' = <<>>
  /\ splitPc' = AfterReadErr(pipeErr)
  /\ sendVal' = IF AfterReadErr(pipeErr) = "sendErr" THEN ErrText(pipeErr) ELSE <<>>
  /\ chClosed' = (AfterReadErr(pipeErr) = "done")
  /\ UNCHANGED <<sessVars, pumpVars, pipeVars, cancelled, consuming, emitted,
                 crashed, histVars, rpcIssued>>

\* where the loop goes after a send: after ch <- err.Error() it returns and
\* the deferred close(ch) runs, after ch <- line it reads again
AfterSend(pc) == IF pc = "sendErr" THEN "done" ELSE "read"

\* the caller receives what the splitter is sending on the unbuffered ch
ConsumerRecv ==
  /\ splitPc \in {"sendLine", "sendErr"}
  /\ ~crashed
  /\ consuming
  /\ emitted' = Append(emitted, sendVal)
  /\ sendVal' = <<>>
  /\ splitPc' = AfterSend(splitPc)
  /\ chClosed' = (AfterSend(splitPc) = "done")
  /\ UNCHANGED <<sessVars, pumpVars, pipeVars, brBuf, cancelled,
                 consuming, crashed, histVars, rpcIssued>>

\* ---------------------------------------------------------- specification

Next ==
  \/ \E name \in BOOLEAN, size \in BufSizes, k \in 0..MaxTail :
       TailStdoutLog(name, size, k)
  \/ Cancel
  \/ ConsumerStop
  \/ PumpTick
  \/ PumpCtxDone
  \/ \E e \in {RpcError, BadName} : RpcFails(e)
  \/ \E r \in Replies : PumpSkip(r)
  \/ \E r \in Replies : PumpPanic(r)
  \/ \E r \in Replies : PumpReconcile(r)
  \/ PumpWriteReturns
  \/ ProcessExit
  \/ SplitScan
  \/ \E n \in 1..MaxChunk : SplitFill(n)
  \/ SplitReadErr
  \/ ConsumerRecv

Spec == Init /\ [][Next]_vars

\* ------------------------------------------------------------ vocabulary
\* of the properties

\* one complete line: log text ending with a newline and holding no other
IsLine(s) ==
  /\ IsLogText(s)
  /\ Len(s) > 0
  /\ s[Len(s)] = NL
  /\ \A i \in 1..(Len(s) - 1) : s[i] /= NL

RECURSIVE Flatten(_)
Flatten(ss) == IF ss = <<>> THEN <<>> ELSE Head(ss) \o Flatten(Tail(ss))

IsPrefix(a, b) == Len(a) <= Len(b) /\ SubSeq(b, 1, Len(a)) = a

\* the entries of the output that are log text, in order
LineEntries == SelectSeq(emitted, IsLogText)

\* the bytes written to the pipe by the polls after the seed
DeltasSince == SliceFrom(written, seedLen)

\* the log bytes between the first and the latest end offset of an "ok" run
LogSince == LastBytes(knownLog, lastEnd - firstEnd)

\* the part of s after its n-th newline (n >= 1, s has at least n newlines)
AfterNthNewline(s, n) ==
  LET p == CHOOSE i \in 1..Len(s) :
             s[i] = NL /\ Cardinality({j \in 1..i : s[j] = NL}) = n
  IN SubSeq(s, p + 1, Len(s))

\* the lines of s, its text cut after every newline; a last piece without
\* one is dropped
RECURSIVE LinesOf(_)
LinesOf(s) ==
  IF \A i \in 1..Len(s) : s[i] /= NL THEN <<>>
  ELSE LET p == CHOOSE i \in 1..Len(s) : s[i] = NL /\ \A j \in 1..(i-1) : s[j] /= NL
       IN <<SubSeq(s, 1, p)>> \o LinesOf(SubSeq(s, p + 1, Len(s)))

\* keep the last k of a sequence
LastK(ss, k) == SubSeq(ss, Len(ss) - k + 1, Len(ss))

\* what the seed of a chunk should be under tailLine = k
SeedOf(chunk, k) ==
  IF Count(chunk) > k THEN AfterNthNewline(chunk, Count(chunk) - k) ELSE chunk

\* ----------------------------------------------------------------- claims

\* C1: on a poll at offset 0 with tailLine = K >= 0, the bytes written to
\* the pipe are the part of the chunk after its (count-K)-th newline when
\* the chunk has more than K newlines (the last K lines, for a chunk of
\* more than K newline-terminated lines), and the whole chunk otherwise.
C1_SeedTrim ==
  [][(pumpPc = "call" /\ offset = 0) =>
       \A r \in Replies :
         PumpReconcile(r) =>
           /\ written' = written \o SeedOf(r.chunk, tailLine)
           /\ pipeData' = SeedOf(r.chunk, tailLine)
           /\ (Count(r.chunk) > tailLine /\ Flatten(LinesOf(r.chunk)) = r.chunk)
                => pipeData' = Flatten(LastK(LinesOf(r.chunk), tailLine))]_vars

\* C1 witness: a seed poll cut a chunk of two lines down to its last line
C1_Witness ==
  /\ seedCut
  /\ tailLine = 1
  /\ pumpPc = "write"
  /\ written = <<NL>>
  /\ pipeData = <<NL>>
  /\ seedLen = 1

\* C2: in a run of snapshots that are suffixes of the log (first end > 0,
\* then 0 <= advance <= len(chunk)), the deltas written after the first
\* poll are exactly the log bytes between the first and the last end offset.
C2_NoDupNoGap == suffixRun = "ok" => DeltasSince = LogSince

\* C3: every entry of the output but a final error entry is one complete
\* line, and the line entries, concatenated, are a prefix of the bytes
\* written to the pipe.
C3_WholeLines ==
  /\ \A i \in 1..Len(emitted) :
       \/ IsLine(emitted[i])
       \/ i = Len(emitted) /\ chClosed /\ emitted[i] = ErrText(pipeErr)
  /\ IsPrefix(Flatten(LineEntries), written)

\* C3 witness: a line whose bytes came in two deltas was emitted whole
C3_Witness ==
  /\ seedLen = 1
  /\ written = <<"a", NL>>
  /\ emitted = << <<"a", NL>> >>

\* C4: when p.rpc.Call fails the pump is done and the pipe is closed with
\* exactly that error; once the output is closed, its last entry is that
\* error's text, it is the only entry that is no line, and the entries
\* before it are all the complete lines written to the pipe.
C4_RpcErrorSurfaces ==
  err /= NoErr =>
    /\ pumpPc = "done"
    /\ pipeErr = err
    /\ pipeData = <<>>
    /\ chClosed =>
         /\ Len(emitted) >= 1
         /\ emitted[Len(emitted)] = ErrText(err)
         /\ Len(LineEntries) = Len(emitted) - 1
         /\ LineEntries = LinesOf(written)

\* C4 witness: a failed call closed the output after a line was emitted
C4_Witness ==
  /\ err = RpcError
  /\ chClosed
  /\ Len(emitted) = 2
  /\ emitted[2] = ErrText(RpcError)

\* the scheduling of the session: the ticker keeps firing, and select takes
\* a ready case at random, so a cancelled context is observed sooner or
\* later; a call in flight returns; a goroutine that can run does; a caller
\* that is receiving takes what is sent
CallEnds ==
  \/ \E e \in {RpcError, BadName} : RpcFails(e)
  \/ \E r \in Replies : PumpSkip(r) \/ PumpPanic(r) \/ PumpReconcile(r)

Fairness ==
  /\ WF_vars(PumpTick)
  /\ SF_vars(PumpCtxDone)
  /\ WF_vars(CallEnds)
  /\ WF_vars(PumpWriteReturns)
  /\ WF_vars(ProcessExit)
  /\ WF_vars(SplitScan)
  /\ WF_vars(\E n \in 1..MaxChunk : SplitFill(n))
  /\ WF_vars(SplitReadErr)
  /\ WF_vars(ConsumerRecv)

FairSpec == Init /\ [][Next]_vars /\ Fairness

\* C5: once the caller has cancelled, and as long as the caller keeps
\* receiving and no call fails (a failed call ends the session with its own
\* error), eventually the pump is done, the pipe is closed with the
\* cancellation error, the splitter has returned and the output is closed.
C5_CancelTerminates ==
  cancelled ~> \/ ~consuming
               \/ err /= NoErr
               \/ /\ pumpPc = "done"
                  /\ pipeErr = Canceled
                  /\ splitPc = "done"
                  /\ chClosed

\* C6 as stated: once the caller has stopped receiving, the pump ends up
\* blocked in w.Write (unless the session ends) and calls the supervisor no
\* more.
C6_PumpEndsBlocked ==
  ~consuming ~> [](pumpPc \in {"write", "done", "panic"})

\* C6 as amended: while bytes of a Write are in the pipe the pump stays in
\* that Write, issuing no call and writing nothing more; and once the
\* splitter is stuck sending a line to a caller that has stopped receiving,
\* the Write in progress stays as it is.
C6_Backpressure ==
  [][/\ pipeData /= <<>> =>
          /\ pumpPc = "write"
          /\ pumpPc' = "write"
          /\ written' = written
          /\ Len(pipeData') <= Len(pipeData)
          /\ pipeData' = LastBytes(pipeData, Len(pipeData'))
     /\ (~consuming /\ splitPc = "sendLine" /\ pumpPc = "write"
           /\ pipeData /= <<>>)
          => pipeData' = pipeData /\ splitPc' = "sendLine"]_vars

\* C6 witness: the caller has stopped receiving, the splitter is stuck
\* sending a line and the pump is blocked writing the next delta
C6_Witness ==
  /\ ~consuming
  /\ splitPc = "sendLine"
  /\ pumpPc = "write"
  /\ pipeData /= <<>>
  /\ Len(written) > Len(pipeData)

\* C7: a poll at offset /= 0 whose advance is <= 0 writes nothing to the
\* pipe, whatever its chunk, and the pump goes on to the next tick.
C7_NoAdvanceNoOutput ==
  [][(pumpPc = "call" /\ offset /= 0) =>
       \A r \in Replies :
         (PumpReconcile(r) /\ r.end - offset <= 0) =>
           /\ written' = written
           /\ pipeData' = <<>>
           /\ pumpPc' = "select"
           /\ pipeErr' = NoErr]_vars

\* C8 as stated: starting a session for a name the supervisor does not
\* know reports a not-found error and never issues a call.
C8_FailsFast ==
  ~nameKnown => startErr /= NoErr /\ ~rpcIssued

\* C8 as amended: starting a session for a name the supervisor does not
\* know reports no error; nothing is ever written to the pipe and no line
\* is emitted; the pump ends on the failure of a call it has issued, or on
\* cancellation, and once the output is closed its only entry is the text of
\* the error the pipe was closed with.
C8_UnknownNameSurfacesLate ==
  ~nameKnown =>
    /\ startErr = NoErr
    /\ written = <<>>
    /\ LineEntries = <<>>
    /\ pumpPc \in {"select", "call", "done"}
    /\ pumpPc = "done" =>
         \/ pipeErr = Canceled /\ cancelled
         \/ pipeErr \in {BadName, RpcError} /\ rpcIssued
    /\ chClosed => emitted = <<ErrText(pipeErr)>>

\* C8 witness: the session for an unknown name ended with the fault of its
\* first call as the only entry of the output
C8_Witness ==
  /\ ~nameKnown
  /\ rpcIssued
  /\ chClosed
  /\ emitted = <<ErrText(BadName)>>

\* C9 as stated: a session that ended by cancellation has emitted no entry
\* carrying the cancellation error.
C9_CancelSilent ==
  (pumpPc = "done" /\ pipeErr = Canceled) =>
     \A i \in 1..Len(emitted) : emitted[i] /= ErrText(Canceled)

\* C9 as amended: when a session ended by cancellation and the output is
\* closed, the last entry of the output is the text of the cancellation
\* error and every entry before it is a line.
C9_CancelSurfaces ==
  (pumpPc = "done" /\ pipeErr = Canceled /\ chClosed) =>
     /\ Len(emitted) >= 1
     /\ emitted[Len(emitted)] = ErrText(Canceled)
     /\ \A i \in 1..(Len(emitted) - 1) : IsLine(emitted[i])

\* C9 witness: a cancelled session closed its output after a line
C9_Witness ==
  /\ pumpPc = "done"
  /\ pipeErr = Canceled
  /\ chClosed
  /\ Len(emitted) = 2

\* C10: once the output is closed, every byte written to the pipe has been
\* emitted: a last piece without a newline is emitted as a final entry.
C10_NothingDropped ==
  chClosed => Flatten(LineEntries) = written

\* C11: a poll at offset /= 0 whose advance exceeds the length of its chunk
\* is no error: the pump neither ends nor panics, the pipe stays open, at
\* most the chunk is written, offset becomes the end offset of the reply and
\* the pump goes on polling.
C11_LossyDeltaGoesOn ==
  [][(pumpPc = "call" /\ offset /= 0) =>
       \A r \in Replies :
         ((PumpReconcile(r) \/ PumpPanic(r))
            /\ r.end - offset > Len(r.chunk)) =>
           /\ pumpPc' \in {"write", "select"}
           /\ pipeErr' = NoErr
           /\ offset' = r.end
           /\ Len(written') <= Len(written) + Len(r.chunk)]_vars

\* C12: every call in flight carries the name of the session, the current
\* offset and the length of the session, which is the readBufSize the
\* caller passed, or 8192 when the caller passed 0, and never changes during
\* the session; a call is issued only by the select of the pump taking a
\* tick, and at most one call is in flight.
C12_CallArguments ==
  [][/\ Len(inFlight') <= 1
     /\ \A i \in 1..Len(inFlight') :
          inFlight'[i] = [name |-> nameKnown', offset |-> offset',
                          length |-> IF bufArg' = 0 THEN 8192 ELSE bufArg']
     /\ pumpPc /= "idle" => bufArg' = bufArg /\ readBufSize' = readBufSize
     /\ Len(inFlight') > Len(inFlight) =>
          /\ pumpPc = "select"
          /\ pumpPc' = "call"
          /\ inFlight = <<>>
     /\ (pumpPc' = "call") <=> (inFlight' /= <<>>)]_vars

\* C12 witness: a second call is in flight, for a session started with
\* readBufSize 0, at the offset the first reply left
C12_Witness ==
  /\ pumpPc = "call"
  /\ bufArg = 0
  /\ offset = 2
  /\ written /= <<>>
  /\ inFlight = <<[name |-> TRUE, offset |-> 2, length |-> 8192]>>

\* C13: after every poll the pump has reconciled, offset is the end offset
\* of that reply, also when the end offset is not beyond the offset the
\* poll was made at.
C13_OffsetFollowsEnd ==
  [][pumpPc = "call" =>
       \A r \in Replies : PumpReconcile(r) => offset' = r.end]_vars

\* C14: when ctx is cancelled while the pump is blocked in w.Write because
\* the caller does not receive (the splitter is stuck sending a line), the
\* Write is interrupted: the pump returns and closes the pipe, with the
\* caller receiving nothing more.
C14_CancelInterruptsWrite ==
  (cancelled /\ ~consuming /\ splitPc = "sendLine" /\ pumpPc = "write"
     /\ pipeData /= <<>>)
    ~> (pumpPc = "done" /\ pipeErr /= NoErr)

\* C15: a poll at offset /= 0 whose chunk is empty while its end offset is
\* beyond offset ends the session by the normal path: the pump returns (it
\* neither panics nor goes on to the next tick) and the pipe is closed with
\* an error.
C15_EmptyChunkEndsInError ==
  [][(pumpPc = "call" /\ offset /= 0) =>
       \A r \in Replies :
         ((PumpReconcile(r) \/ PumpPanic(r))
            /\ r.chunk = <<>> /\ r.end - offset > 0) =>
           /\ pumpPc' = "done"
           /\ pipeErr' /= NoErr
           /\ written' = written]_vars

\* C16: the pump closes the pipe exactly once on every way out, with the
\* error of the failed call if a call failed and with the cancellation
\* error otherwise; once the pipe is closed no call is in flight and the
\* pump is in no Write.
C16_ClosedOnceWithError ==
  /\ closes <= 1
  /\ (pumpPc \in {"done", "panic"}) <=> (closes = 1)
  /\ closes = 1 =>
       /\ pipeErr /= NoErr
       /\ pipeErr = (IF err \in {RpcError, BadName} THEN err ELSE Canceled)
       /\ inFlight = <<>>
       /\ pipeData = <<>>

\* a step of the splitter goroutine other than its send
SplitterReads ==
  SplitScan \/ (\E n \in 1..MaxChunk : SplitFill(n)) \/ SplitReadErr

\* C17: the output is closed only after the pump has closed the pipe, and
\* the splitter is on its way out only then; while the pipe is open and
\* holds no bytes and no line is buffered, the splitter has no step (it
\* emits nothing and does not close the output); when the pipe holds bytes
\* or a line is buffered it has one.
C17_ClosedAfterPipe ==
  /\ chClosed => closes = 1 /\ pipeErr /= NoErr /\ pumpPc \in {"done", "panic"}
  /\ splitPc \in {"sendErr", "done"} => closes = 1 /\ pipeErr /= NoErr
  /\ (splitPc = "read" /\ Index(brBuf) < 0 /\ pipeData = <<>>
        /\ pipeErr = NoErr)
       => ~chClosed /\ ~ENABLED SplitterReads /\ ~ENABLED ConsumerRecv
  /\ (splitPc = "read" /\ ~crashed /\ (pipeData /= <<>> \/ Index(brBuf) >= 0))
       => ENABLED SplitterReads

\* C17 witness: the splitter waits on the open pipe a second time, having
\* emitted the line of the seed and the line of a later delta, while the
\* pump is in a call
C17_Witness ==
  /\ splitPc = "read"
  /\ brBuf = <<>>
  /\ pipeData = <<>>
  /\ pipeErr = NoErr
  /\ pumpPc = "call"
  /\ seedLen = 1
  /\ written = <<NL, NL>>
  /\ emitted = <<<<NL>>, <<NL>>>>

\* C18: a poll that follows a reconciled poll is reconciled by offset and
\* not trimmed to tailLine lines, whatever the offset the first reply left
\* (0 for a log that was empty): when the end offset of its reply is
\* beyond offset by no more than the length of the chunk, exactly the last
\* end - offset bytes of the chunk are written.
C18_SeedTrimOnce ==
  [][(pumpPc = "call" /\ polls = "reconciled") =>
       \A r \in Replies :
         (PumpReconcile(r) /\ r.end - offset > 0
            /\ Len(r.chunk) >= r.end - offset) =>
           written' = written \o LastBytes(r.chunk, r.end - offset)]_vars

\* C19: a reply whose ret[0] is no string is skipped: nothing is written to
\* the pipe, offset and err stay as they are, the pipe stays open, and the
\* pump is back at its select, where the next tick issues the next call; a
\* session whose replies all had no string has written nothing and is at
\* offset 0.
C19_NonStringSkipped ==
  [][/\ polls = "skipped" =>
          written = <<>> /\ offset = 0 /\ pumpPc /= "panic"
     /\ pumpPc = "call" =>
       \A r \in Replies :
         (~r.isStr /\ PumpSkip(r)) =>
           /\ written' = written
           /\ pipeData' = pipeData
           /\ offset' = offset
           /\ err' = err
           /\ pipeErr' = NoErr
           /\ closes' = 0
           /\ inFlight' = <<>>
           /\ pumpPc' = "select"
           /\ ~crashed']_vars

\* C19 witness: every reply so far had no string, and the next call is in
\* flight with the offset the session started with
C19_Witness ==
  /\ polls = "skipped"
  /\ pumpPc = "call"
  /\ offset = 0
  /\ written = <<>>
  /\ pipeErr = NoErr
  /\ inFlight = <<[name |-> TRUE, offset |-> 0, length |-> 8192]>>

\* the pipe is never closed without an error: no read of it returns io.EOF,
\* so the branch of the splitter for io.EOF (sleep, read again) is not taken
PipeNeverPlainEOF ==
  /\ pipeErr /= "EOF"
  /\ closes = 1 => pipeErr \in {Canceled, TailLogQuit, RpcError, BadName}

====
